---------------------------- MODULE Spec2Model ----------------------------
(***************************************************************************)
(* The matcher operation tree of mongoc-matcher-op.c: the five             *)
(* constructors, the recursive teardown, and the recursive evaluator with  *)
(* its type-coercion matrix, over an allocation-tracking heap.             *)
(*                                                                         *)
(* Conventions of the model                                                *)
(*  - A bson value is a record [type, num, str, doc]: num holds the number *)
(*    of an INT32/INT64/BOOL value, and of a DOUBLE value counted in       *)
(*    halves (2.5 is num = 5), so that C's conversion of an integer to a   *)
(*    double is exact; str holds the bytes of a UTF8 value; doc holds the  *)
(*    elements of an embedded document.                                    *)
(*  - A C string used as a path or as a key is the sequence of its         *)
(*    '.'-separated segments: "a.b" is <<"a", "b">>, "" is <<"">>, and the *)
(*    null pointer is <<>>.                                                *)
(*  - BSON_ASSERT is a fatal assertion: a failed one ends the process      *)
(*    (status = "assert"), after which nothing happens.                    *)
(*  - A node's path pointer refers to nothing (pathState = "none"), to the *)
(*    allocation bson_strdup made for the node ("live", "freed"), or to    *)
(*    the caller's string ("caller").                                      *)
(***************************************************************************)
EXTENDS Integers, Sequences, FiniteSets

VARIABLES heap,      \* address -> cell: the allocation-tracking heap
          roots,     \* addresses of the live trees the caller owns
          stale,     \* pointers the caller still holds to torn-down roots
          call,      \* the operation that ran last
          status,    \* "ok", or how the process ended
          result,    \* what the last evaluation observed
          freeLog,   \* the releases of the last teardown, in order
          before,    \* the heap as it was before the last teardown
          caller     \* the memory the caller owns: its path string, the
                     \* document behind the operands, the documents evaluated

vars == <<heap, roots, stale, call, status, result, freeLog, before, caller>>

----------------------------------------------------------------------------
(* Bounds of the model *)

MaxNodes == 4

Addr == 1..MaxNodes
NULL == 0

----------------------------------------------------------------------------
(* bson type tags (bson_type_t) *)

BSON_TYPE_DOUBLE == 1
BSON_TYPE_UTF8 == 2
BSON_TYPE_DOCUMENT == 3
BSON_TYPE_ARRAY == 4
BSON_TYPE_UNDEFINED == 6
BSON_TYPE_BOOL == 8
BSON_TYPE_NULL == 10
BSON_TYPE_INT32 == 16
BSON_TYPE_INT64 == 18

(* matcher opcodes (mongoc_matcher_opcode_t) *)

MONGOC_MATCHER_OPCODE_EQ == "EQ"
MONGOC_MATCHER_OPCODE_GT == "GT"
MONGOC_MATCHER_OPCODE_GTE == "GTE"
MONGOC_MATCHER_OPCODE_IN == "IN"
MONGOC_MATCHER_OPCODE_LT == "LT"
MONGOC_MATCHER_OPCODE_LTE == "LTE"
MONGOC_MATCHER_OPCODE_NE == "NE"
MONGOC_MATCHER_OPCODE_NIN == "NIN"
MONGOC_MATCHER_OPCODE_OR == "OR"
MONGOC_MATCHER_OPCODE_AND == "AND"
MONGOC_MATCHER_OPCODE_NOT == "NOT"
MONGOC_MATCHER_OPCODE_NOR == "NOR"
MONGOC_MATCHER_OPCODE_EXISTS == "EXISTS"
MONGOC_MATCHER_OPCODE_TYPE == "TYPE"

\* The opcodes the switch statements treat as mongoc_matcher_op_compare_t.
CompareOpcodes ==
  { MONGOC_MATCHER_OPCODE_EQ, MONGOC_MATCHER_OPCODE_GT,
    MONGOC_MATCHER_OPCODE_GTE, MONGOC_MATCHER_OPCODE_IN,
    MONGOC_MATCHER_OPCODE_LT, MONGOC_MATCHER_OPCODE_LTE,
    MONGOC_MATCHER_OPCODE_NE, MONGOC_MATCHER_OPCODE_NIN }

\* The opcodes the switch statements treat as mongoc_matcher_op_logical_t.
LogicalOpcodes ==
  { MONGOC_MATCHER_OPCODE_OR, MONGOC_MATCHER_OPCODE_AND,
    MONGOC_MATCHER_OPCODE_NOR }

----------------------------------------------------------------------------
(* bson values and documents *)

Value(t, n, s, d) == [type |-> t, num |-> n, str |-> s, doc |-> d]

Double(halves) == Value(BSON_TYPE_DOUBLE, halves, <<>>, <<>>)
Int32(n) == Value(BSON_TYPE_INT32, n, <<>>, <<>>)
Int64(n) == Value(BSON_TYPE_INT64, n, <<>>, <<>>)
Bool(b) == Value(BSON_TYPE_BOOL, IF b THEN 1 ELSE 0, <<>>, <<>>)
Utf8(bytes) == Value(BSON_TYPE_UTF8, 0, bytes, <<>>)
Null == Value(BSON_TYPE_NULL, 0, <<>>, <<>>)
Undefined == Value(BSON_TYPE_UNDEFINED, 0, <<>>, <<>>)
Document(elems) == Value(BSON_TYPE_DOCUMENT, 0, <<>>, elems)
Array(elems) == Value(BSON_TYPE_ARRAY, 0, <<>>, elems)

Elem(k, v) == [key |-> k, val |-> v]

\* What memset/bson_malloc0 leaves in an iterator that was never set.
NoValue == Value(0, 0, <<>>, <<>>)

NULL_PATH == <<>>

bson_iter_type(v) == v.type

\* The typed readers, on the common scale of halves.
bson_iter_double(v) == v.num
bson_iter_bool(v) == 2 * (IF v.num # 0 THEN 1 ELSE 0)
bson_iter_int32(v) == 2 * v.num
bson_iter_int64(v) == 2 * v.num

\* bson_iter_##t of the reader the value's own type selects.
Native(v) ==
  CASE v.type = BSON_TYPE_DOUBLE -> bson_iter_double(v)
    [] v.type = BSON_TYPE_BOOL -> bson_iter_bool(v)
    [] v.type = BSON_TYPE_INT32 -> bson_iter_int32(v)
    [] v.type = BSON_TYPE_INT64 -> bson_iter_int64(v)
    [] OTHER -> 0

\* bson_iter_init_find: the index of the first element of bson whose key is
\* exactly the string key (no descent into sub-documents), or 0.
bson_iter_init_find(bson, key) ==
  IF \E i \in 1..Len(bson) : bson[i].key = key
  THEN CHOOSE i \in 1..Len(bson) :
         /\ bson[i].key = key
         /\ \A j \in 1..(i - 1) : bson[j].key # key
  ELSE 0

\* bson_iter_find_descendant (iter, dotkey, &desc): iter advances to the first
\* element whose key is the part of dotkey before its first '.'; with no '.'
\* left, desc is that element; otherwise the search goes on inside it when it
\* is a document or an array.  iter stays on the element of the outer document.
RECURSIVE bson_iter_find_descendant(_, _)
bson_iter_find_descendant(bson, dotkey) ==
  LET i == bson_iter_init_find(bson, <<Head(dotkey)>>)
  IN IF i = 0
     THEN [found |-> FALSE, iter |-> NoValue, desc |-> NoValue]
     ELSE IF Len(dotkey) = 1
     THEN [found |-> TRUE, iter |-> bson[i].val, desc |-> bson[i].val]
     ELSE IF bson[i].val.type \in {BSON_TYPE_DOCUMENT, BSON_TYPE_ARRAY}
     THEN LET sub == bson_iter_find_descendant(bson[i].val.doc, Tail(dotkey))
          IN [found |-> sub.found, iter |-> bson[i].val, desc |-> sub.desc]
     ELSE [found |-> FALSE, iter |-> bson[i].val, desc |-> NoValue]

----------------------------------------------------------------------------
(* The comparison macros.  l is the native value of the node's operand     *)
(* (compare->iter, the spec side), r the native value of the document's    *)
(* field (iter).                                                           *)

_TYPE_CODE(l, r) == (l * 256) + r

_EQ_COMPARE(l, r) == l = r
_NE_COMPARE(l, r) == l # r
_GT_COMPARE(l, r) == l <= r
_GTE_COMPARE(l, r) == l < r
_LT_COMPARE(l, r) == l >= r
_LTE_COMPARE(l, r) == l > r

\* The twelve case labels the ordering switches and the numeric part of the
\* equality switch share: Double/Int32/Int64 on the left side, against
\* Double/Bool/Int32/Int64.
NumericCases ==
  { _TYPE_CODE(l, r) :
      l \in {BSON_TYPE_DOUBLE, BSON_TYPE_INT32, BSON_TYPE_INT64},
      r \in {BSON_TYPE_DOUBLE, BSON_TYPE_BOOL, BSON_TYPE_INT32,
             BSON_TYPE_INT64} }

\* What a leaf's match function hands back: its return value and the number
\* of MONGOC_WARNING diagnostics it emitted.
Returns(b) == [res |-> b, warn |-> 0]
Warns(b) == [res |-> b, warn |-> 1]

\* _mongoc_matcher_op_eq_match with the "llen == rlen" test left out of the
\* UTF8 case: memcmp over the operand's length alone.
_mongoc_matcher_op_eq_match_no_length(compare, iter) ==
  LET code == _TYPE_CODE(bson_iter_type(compare.iter), bson_iter_type(iter))
  IN IF code \in NumericCases
     THEN Returns(_EQ_COMPARE(Native(compare.iter), Native(iter)))
     ELSE IF code = _TYPE_CODE(BSON_TYPE_UTF8, BSON_TYPE_UTF8)
     THEN LET llen == Len(compare.iter.str)
              rlen == Len(iter.str)
          IN Returns(\A k \in 1..llen :
                       k <= rlen /\ compare.iter.str[k] = iter.str[k])
     ELSE IF code \in { _TYPE_CODE(BSON_TYPE_NULL, BSON_TYPE_NULL),
                        _TYPE_CODE(BSON_TYPE_NULL, BSON_TYPE_UNDEFINED) }
     THEN Returns(TRUE)
     ELSE Returns(FALSE)

\* _mongoc_matcher_op_eq_match with the case label
\* _TYPE_CODE(BSON_TYPE_NULL, BSON_TYPE_UNDEFINED) written the other way round.
_mongoc_matcher_op_eq_match_undefined_left(compare, iter) ==
  LET code == _TYPE_CODE(bson_iter_type(compare.iter), bson_iter_type(iter))
  IN IF code \in NumericCases
     THEN Returns(_EQ_COMPARE(Native(compare.iter), Native(iter)))
     ELSE IF code = _TYPE_CODE(BSON_TYPE_UTF8, BSON_TYPE_UTF8)
     THEN LET llen == Len(compare.iter.str)
              rlen == Len(iter.str)
          IN Returns(/\ llen = rlen
                     /\ \A k \in 1..llen : compare.iter.str[k] = iter.str[k])
     ELSE IF code \in { _TYPE_CODE(BSON_TYPE_NULL, BSON_TYPE_NULL),
                        _TYPE_CODE(BSON_TYPE_UNDEFINED, BSON_TYPE_NULL) }
     THEN Returns(TRUE)
     ELSE Returns(FALSE)

_mongoc_matcher_op_eq_match(compare, iter) ==
  LET code == _TYPE_CODE(bson_iter_type(compare.iter), bson_iter_type(iter))
  IN IF code \in NumericCases
     THEN Returns(_EQ_COMPARE(Native(compare.iter), Native(iter)))
     ELSE IF code = _TYPE_CODE(BSON_TYPE_UTF8, BSON_TYPE_UTF8)
     THEN LET llen == Len(compare.iter.str)
              rlen == Len(iter.str)
          IN Returns(/\ llen = rlen
                     /\ \A k \in 1..llen : compare.iter.str[k] = iter.str[k])
     ELSE IF code \in { _TYPE_CODE(BSON_TYPE_NULL, BSON_TYPE_NULL),
                        _TYPE_CODE(BSON_TYPE_NULL, BSON_TYPE_UNDEFINED) }
     THEN Returns(TRUE)
     ELSE Returns(FALSE)

\* _mongoc_matcher_op_gt_match without the MONGOC_WARNING of its default case.
_mongoc_matcher_op_gt_match_silent(compare, iter) ==
  LET code == _TYPE_CODE(bson_iter_type(compare.iter), bson_iter_type(iter))
  IN IF code \in NumericCases
     THEN Returns(_GT_COMPARE(Native(compare.iter), Native(iter)))
     ELSE Returns(FALSE)

_mongoc_matcher_op_gt_match(compare, iter) ==
  LET code == _TYPE_CODE(bson_iter_type(compare.iter), bson_iter_type(iter))
  IN IF code \in NumericCases
     THEN Returns(_GT_COMPARE(Native(compare.iter), Native(iter)))
     ELSE Warns(FALSE)

_mongoc_matcher_op_gte_match(compare, iter) ==
  LET code == _TYPE_CODE(bson_iter_type(compare.iter), bson_iter_type(iter))
  IN IF code \in NumericCases
     THEN Returns(_GTE_COMPARE(Native(compare.iter), Native(iter)))
     ELSE Warns(FALSE)

_mongoc_matcher_op_in_match(compare, iter) == Warns(FALSE)

_mongoc_matcher_op_lt_match(compare, iter) ==
  LET code == _TYPE_CODE(bson_iter_type(compare.iter), bson_iter_type(iter))
  IN IF code \in NumericCases
     THEN Returns(_LT_COMPARE(Native(compare.iter), Native(iter)))
     ELSE Warns(FALSE)

_mongoc_matcher_op_lte_match(compare, iter) ==
  LET code == _TYPE_CODE(bson_iter_type(compare.iter), bson_iter_type(iter))
  IN IF code \in NumericCases
     THEN Returns(_LTE_COMPARE(Native(compare.iter), Native(iter)))
     ELSE Warns(FALSE)

\* "!" applied to what a match function returned.
Not(r) == [r EXCEPT !.res = ~r.res]

_mongoc_matcher_op_ne_match(compare, iter) ==
  Not(_mongoc_matcher_op_eq_match(compare, iter))

_mongoc_matcher_op_nin_match(compare, iter) ==
  Not(_mongoc_matcher_op_in_match(compare, iter))

_mongoc_matcher_op_compare_match(compare, bson) ==
  LET i == bson_iter_init_find(bson, compare.path)
  IN IF i = 0
     THEN Returns(FALSE)
     ELSE LET iter == bson[i].val
          IN CASE compare.opcode = MONGOC_MATCHER_OPCODE_EQ ->
                    _mongoc_matcher_op_eq_match(compare, iter)
               [] compare.opcode = MONGOC_MATCHER_OPCODE_GT ->
                    _mongoc_matcher_op_gt_match(compare, iter)
               [] compare.opcode = MONGOC_MATCHER_OPCODE_GTE ->
                    _mongoc_matcher_op_gte_match(compare, iter)
               [] compare.opcode = MONGOC_MATCHER_OPCODE_IN ->
                    _mongoc_matcher_op_in_match(compare, iter)
               [] compare.opcode = MONGOC_MATCHER_OPCODE_LT ->
                    _mongoc_matcher_op_lt_match(compare, iter)
               [] compare.opcode = MONGOC_MATCHER_OPCODE_LTE ->
                    _mongoc_matcher_op_lte_match(compare, iter)
               [] compare.opcode = MONGOC_MATCHER_OPCODE_NE ->
                    _mongoc_matcher_op_ne_match(compare, iter)
               [] compare.opcode = MONGOC_MATCHER_OPCODE_NIN ->
                    _mongoc_matcher_op_nin_match(compare, iter)

\* _mongoc_matcher_op_exists_match returning found, whatever was expected.
_mongoc_matcher_op_exists_match_found(exists, bson) ==
  Returns(bson_iter_find_descendant(bson, exists.path).found)

_mongoc_matcher_op_exists_match(exists, bson) ==
  LET found == bson_iter_find_descendant(bson, exists.path).found
  IN Returns(found = exists.exists)

_mongoc_matcher_op_type_match(type, bson) ==
  LET look == bson_iter_find_descendant(bson, type.path)
  IN IF look.found
     THEN Returns(bson_iter_type(look.iter) = type.type)
     ELSE Returns(FALSE)

----------------------------------------------------------------------------
(* The heap.  A cell is one bson_malloc0 (sizeof *op) allocation together  *)
(* with the allocation bson_strdup made for its path.  An address is never *)
(* handed out twice, so a release can be told from a second release;       *)
(* released memory holds nothing the program may read.                     *)

FreshCell ==
  [ state |-> "unalloc", frees |-> 0,
    opcode |-> "", path |-> NULL_PATH, pathState |-> "none", pathFrees |-> 0,
    exists |-> FALSE, type |-> 0, iter |-> NoValue,
    left |-> NULL, right |-> NULL, child |-> NULL ]

EmptyHeap == [a \in Addr |-> FreshCell]

HasRoom(h) == \E a \in Addr : h[a].state = "unalloc"

\* bson_malloc0: the next address never used.
bson_malloc0(h) ==
  CHOOSE a \in Addr :
    /\ h[a].state = "unalloc"
    /\ \A b \in Addr : h[b].state = "unalloc" => a <= b

\* A zeroed node with its opcode set.
Node(opcode) == [FreshCell EXCEPT !.state = "live", !.opcode = opcode]

\* op->...path = path: the node keeps the caller's pointer.
WithPath_kept(cell, path) == [cell EXCEPT !.path = path, !.pathState = "caller"]

\* op->...path = bson_strdup (path): the node owns a copy of its own.
WithPath(cell, path) == [cell EXCEPT !.path = path, !.pathState = "live"]

\* What a constructor hands back: the cell it built, or a failed BSON_ASSERT.
Built(cell) == [ok |-> TRUE, cell |-> cell]
AssertFailed == [ok |-> FALSE, cell |-> FreshCell]

\* _mongoc_matcher_op_exists_new without its BSON_ASSERT (path).
_mongoc_matcher_op_exists_new_no_assert(path, exists) ==
  Built([WithPath(Node(MONGOC_MATCHER_OPCODE_EXISTS), path)
           EXCEPT !.exists = exists])

_mongoc_matcher_op_exists_new(path, exists) ==
  IF path = NULL_PATH
  THEN AssertFailed
  ELSE Built([WithPath(Node(MONGOC_MATCHER_OPCODE_EXISTS), path)
                EXCEPT !.exists = exists])

_mongoc_matcher_op_type_new(path, type) ==
  IF path = NULL_PATH \/ type = 0
  THEN AssertFailed
  ELSE Built([WithPath(Node(MONGOC_MATCHER_OPCODE_TYPE), path)
                EXCEPT !.type = type])

_mongoc_matcher_op_logical_new(opcode, left, right) ==
  IF left = NULL \/ opcode \notin LogicalOpcodes
  THEN AssertFailed
  ELSE Built([Node(opcode) EXCEPT !.left = left, !.right = right])

_mongoc_matcher_op_compare_new(opcode, path, iter) ==
  IF opcode \notin CompareOpcodes \/ path = NULL_PATH
  THEN AssertFailed
  ELSE Built([WithPath(Node(opcode), path) EXCEPT !.iter = iter])

_mongoc_matcher_op_not_new(path, child) ==
  IF path = NULL_PATH \/ child = NULL
  THEN AssertFailed
  ELSE Built([WithPath(Node(MONGOC_MATCHER_OPCODE_NOT), path)
                EXCEPT !.child = child])

----------------------------------------------------------------------------
(* How a call ends: "ok" (it returned), "assert" (a BSON_ASSERT failed: a  *)
(* fatal assertion failure), or "undefined" (it read memory that is not a  *)
(* live allocation; what happens next is not defined).                     *)

\* Reading *op as a mongoc_matcher_op_t is defined only for a live node.
Readable(h, op) == h[op].state = "live"

----------------------------------------------------------------------------
(* Teardown.  A run of _mongoc_matcher_op_destroy yields how it ended and  *)
(* the releases it made, in the order it made them.                        *)

FreePath(op) == [kind |-> "path", addr |-> op]
FreeNode(op) == [kind |-> "node", addr |-> op]

Released(log) == [end |-> "ok", log |-> log]

\* Two statements in sequence: the second runs when the first returned.
Seq2(first, second) ==
  IF first.end # "ok"
  THEN first
  ELSE [end |-> second.end, log |-> first.log \o second.log]

RECURSIVE _mongoc_matcher_op_destroy(_, _)
\* _mongoc_matcher_op_destroy without its BSON_ASSERT (op): a null op is
\* read like any other pointer.
_mongoc_matcher_op_destroy_no_assert(h, op) ==
  IF op = NULL \/ ~Readable(h, op)
  THEN [end |-> "undefined", log |-> <<>>]
  ELSE
    LET opcode == h[op].opcode
        left == IF h[op].left # NULL
                THEN _mongoc_matcher_op_destroy(h, h[op].left)
                ELSE Released(<<>>)
        right == IF h[op].right # NULL
                 THEN _mongoc_matcher_op_destroy(h, h[op].right)
                 ELSE Released(<<>>)
        child == _mongoc_matcher_op_destroy(h, h[op].child)
        body ==
          CASE opcode \in LogicalOpcodes -> Seq2(left, right)
            [] opcode = MONGOC_MATCHER_OPCODE_NOT ->
                 Seq2(child, Released(<<FreePath(op)>>))
            [] OTHER -> Released(<<FreePath(op)>>)
    IN Seq2(body, Released(<<FreeNode(op)>>))

\* _mongoc_matcher_op_destroy that tears down only the left child of a
\* Logical node.
_mongoc_matcher_op_destroy_left_only(h, op) ==
  IF op = NULL
  THEN [end |-> "assert", log |-> <<>>]
  ELSE IF ~Readable(h, op)
  THEN [end |-> "undefined", log |-> <<>>]
  ELSE
    LET opcode == h[op].opcode
        left == IF h[op].left # NULL
                THEN _mongoc_matcher_op_destroy(h, h[op].left)
                ELSE Released(<<>>)
        child == _mongoc_matcher_op_destroy(h, h[op].child)
        body ==
          CASE opcode \in LogicalOpcodes -> left
            [] opcode = MONGOC_MATCHER_OPCODE_NOT ->
                 Seq2(child, Released(<<FreePath(op)>>))
            [] OTHER -> Released(<<FreePath(op)>>)
    IN Seq2(body, Released(<<FreeNode(op)>>))

_mongoc_matcher_op_destroy(h, op) ==
  IF op = NULL
  THEN [end |-> "assert", log |-> <<>>]
  ELSE IF ~Readable(h, op)
  THEN [end |-> "undefined", log |-> <<>>]
  ELSE
    LET opcode == h[op].opcode
        left == IF h[op].left # NULL
                THEN _mongoc_matcher_op_destroy(h, h[op].left)
                ELSE Released(<<>>)
        right == IF h[op].right # NULL
                 THEN _mongoc_matcher_op_destroy(h, h[op].right)
                 ELSE Released(<<>>)
        child == _mongoc_matcher_op_destroy(h, h[op].child)
        body ==
          CASE opcode \in CompareOpcodes -> Released(<<FreePath(op)>>)
            [] opcode \in LogicalOpcodes -> Seq2(left, right)
            [] opcode = MONGOC_MATCHER_OPCODE_NOT ->
                 Seq2(child, Released(<<FreePath(op)>>))
            [] opcode = MONGOC_MATCHER_OPCODE_EXISTS ->
                 Released(<<FreePath(op)>>)
            [] opcode = MONGOC_MATCHER_OPCODE_TYPE ->
                 Released(<<FreePath(op)>>)
            [] OTHER -> Released(<<>>)
    IN Seq2(body, Released(<<FreeNode(op)>>))

Releases(log, kind, a) ==
  Cardinality({i \in 1..Len(log) : log[i].kind = kind /\ log[i].addr = a})

\* bson_free applied to every entry of log.
bson_free(h, log) ==
  [a \in Addr |->
     LET np == Releases(log, "path", a)
         nn == Releases(log, "node", a)
         pathDone == [h[a] EXCEPT
                        !.pathFrees = @ + np,
                        !.pathState = IF np > 0 THEN "freed" ELSE @]
     IN IF nn = 0
        THEN pathDone
        ELSE [FreshCell EXCEPT
                !.state = "freed",
                !.frees = h[a].frees + nn,
                !.pathState = pathDone.pathState,
                !.pathFrees = pathDone.pathFrees]]

----------------------------------------------------------------------------
(* Evaluation.  A run of _mongoc_matcher_op_match yields how it ended, its *)
(* return value, the diagnostics it emitted, and the calls and returns of  *)
(* _mongoc_matcher_op_match in the order they happened.                    *)

CallEv(op) == [ev |-> "call", op |-> op, res |-> FALSE]
RetEv(op, b) == [ev |-> "ret", op |-> op, res |-> b]

\* A leaf's match function, run as the body of _mongoc_matcher_op_match (op).
Leaf(r) == [end |-> "ok", res |-> r.res, warn |-> r.warn, trace |-> <<>>]

\* The second operand of a C "||" or "&&", evaluated after the first.
Then(l, r) ==
  [end |-> r.end, res |-> r.res, warn |-> l.warn + r.warn,
   trace |-> l.trace \o r.trace]

\* "!" applied to a run that returned.
Negated(r) == IF r.end = "ok" THEN [r EXCEPT !.res = ~r.res] ELSE r

RECURSIVE _mongoc_matcher_op_match(_, _, _)
RECURSIVE _mongoc_matcher_op_logical_match(_, _, _)
RECURSIVE _mongoc_matcher_op_not_match(_, _, _)

_mongoc_matcher_op_not_match(h, not, bson) ==
  Negated(_mongoc_matcher_op_match(h, not.child, bson))

\* _mongoc_matcher_op_logical_match with "|" and "&" for "||" and "&&":
\* both children are always evaluated.
_mongoc_matcher_op_logical_match_eager(h, logical, bson) ==
  LET left == _mongoc_matcher_op_match(h, logical.left, bson)
      right == _mongoc_matcher_op_match(h, logical.right, bson)
      both == IF left.end # "ok" THEN left ELSE Then(left, right)
      or == IF both.end = "ok"
            THEN [both EXCEPT !.res = left.res \/ right.res] ELSE both
      and == IF both.end = "ok"
             THEN [both EXCEPT !.res = left.res /\ right.res] ELSE both
  IN CASE logical.opcode = MONGOC_MATCHER_OPCODE_OR -> or
       [] logical.opcode = MONGOC_MATCHER_OPCODE_AND -> and
       [] logical.opcode = MONGOC_MATCHER_OPCODE_NOR -> Negated(or)

_mongoc_matcher_op_logical_match(h, logical, bson) ==
  LET left == _mongoc_matcher_op_match(h, logical.left, bson)
      right == _mongoc_matcher_op_match(h, logical.right, bson)
      or == IF left.end # "ok" \/ left.res THEN left ELSE Then(left, right)
      and == IF left.end # "ok" \/ ~left.res THEN left ELSE Then(left, right)
  IN CASE logical.opcode = MONGOC_MATCHER_OPCODE_OR -> or
       [] logical.opcode = MONGOC_MATCHER_OPCODE_AND -> and
       [] logical.opcode = MONGOC_MATCHER_OPCODE_NOR -> Negated(or)

_mongoc_matcher_op_match(h, op, bson) ==
  IF op = NULL
  THEN [end |-> "assert", res |-> FALSE, warn |-> 0,
        trace |-> <<CallEv(op)>>]
  ELSE IF ~Readable(h, op)
  THEN [end |-> "undefined", res |-> FALSE, warn |-> 0,
        trace |-> <<CallEv(op)>>]
  ELSE
    LET opcode == h[op].opcode
        body ==
          CASE opcode \in CompareOpcodes ->
                 Leaf(_mongoc_matcher_op_compare_match(h[op], bson))
            [] opcode \in LogicalOpcodes ->
                 _mongoc_matcher_op_logical_match(h, h[op], bson)
            [] opcode = MONGOC_MATCHER_OPCODE_NOT ->
                 _mongoc_matcher_op_not_match(h, h[op], bson)
            [] opcode = MONGOC_MATCHER_OPCODE_EXISTS ->
                 Leaf(_mongoc_matcher_op_exists_match(h[op], bson))
            [] opcode = MONGOC_MATCHER_OPCODE_TYPE ->
                 Leaf(_mongoc_matcher_op_type_match(h[op], bson))
            [] OTHER -> Leaf(Returns(FALSE))
    IN [end |-> body.end, res |-> body.res, warn |-> body.warn,
        trace |-> <<CallEv(op)>> \o body.trace \o
                  (IF body.end = "ok" THEN <<RetEv(op, body.res)>>
                                      ELSE <<>>)]

----------------------------------------------------------------------------
(* Serialization.  A run of _mongoc_matcher_op_to_bson yields how it ended *)
(* and the document it was appending to, as it left it.                    *)

\* The appends of libbson: one element at the end of the document.
bson_append_iter(bson, key, iter) == Append(bson, Elem(key, iter))

\* bson_append_document_begin ... bson_append_document_end around child.
bson_append_document(bson, key, child) ==
  Append(bson, Elem(key, Document(child)))

\* bson_append_array_begin ... bson_append_array_end around child.
bson_append_array(bson, key, child) == Append(bson, Elem(key, Array(child)))

BSON_APPEND_BOOL(bson, key, b) == Append(bson, Elem(key, Bool(b)))
BSON_APPEND_INT32(bson, key, n) == Append(bson, Elem(key, Int32(n)))

\* The inner switch of the Compare cases, with "$gt" and "$gte" exchanged.
CompareStr_exchanged(opcode) ==
  CASE opcode = MONGOC_MATCHER_OPCODE_GT -> <<"$gte">>
    [] opcode = MONGOC_MATCHER_OPCODE_GTE -> <<"$gt">>
    [] opcode = MONGOC_MATCHER_OPCODE_IN -> <<"$in">>
    [] opcode = MONGOC_MATCHER_OPCODE_LT -> <<"$lt">>
    [] opcode = MONGOC_MATCHER_OPCODE_LTE -> <<"$lte">>
    [] opcode = MONGOC_MATCHER_OPCODE_NE -> <<"$ne">>
    [] opcode = MONGOC_MATCHER_OPCODE_NIN -> <<"$nin">>
    [] OTHER -> NULL_PATH

\* str, as the inner switch of the Compare cases sets it.
CompareStr(opcode) ==
  CASE opcode = MONGOC_MATCHER_OPCODE_GT -> <<"$gt">>
    [] opcode = MONGOC_MATCHER_OPCODE_GTE -> <<"$gte">>
    [] opcode = MONGOC_MATCHER_OPCODE_IN -> <<"$in">>
    [] opcode = MONGOC_MATCHER_OPCODE_LT -> <<"$lt">>
    [] opcode = MONGOC_MATCHER_OPCODE_LTE -> <<"$lte">>
    [] opcode = MONGOC_MATCHER_OPCODE_NE -> <<"$ne">>
    [] opcode = MONGOC_MATCHER_OPCODE_NIN -> <<"$nin">>
    [] OTHER -> NULL_PATH

\* str, as the if-chain of the Logical cases sets it.
LogicalStr(opcode) ==
  IF opcode = MONGOC_MATCHER_OPCODE_OR THEN <<"$or">>
  ELSE IF opcode = MONGOC_MATCHER_OPCODE_AND THEN <<"$and">>
  ELSE IF opcode = MONGOC_MATCHER_OPCODE_NOR THEN <<"$nor">>
  ELSE NULL_PATH

Serialized(bson) == [end |-> "ok", bson |-> bson]
Stopped(end, bson) == [end |-> end, bson |-> bson]

RECURSIVE _mongoc_matcher_op_to_bson(_, _, _)
\* _mongoc_matcher_op_to_bson without the "if (op->logical.right)" around
\* the second element of the array.
_mongoc_matcher_op_to_bson_unguarded(h, op, bson) ==
  IF op = NULL
  THEN Stopped("assert", bson)
  ELSE IF ~Readable(h, op)
  THEN Stopped("undefined", bson)
  ELSE
    LET opcode == h[op].opcode
        left == _mongoc_matcher_op_to_bson(h, h[op].left, <<>>)
        right == _mongoc_matcher_op_to_bson(h, h[op].right, <<>>)
        child == _mongoc_matcher_op_to_bson(h, h[op].child, <<>>)
        first == bson_append_document(<<>>, <<"0">>, left.bson)
        second == bson_append_document(first, <<"1">>, right.bson)
    IN CASE opcode = MONGOC_MATCHER_OPCODE_EQ ->
              Serialized(bson_append_iter(bson, h[op].path, h[op].iter))
         [] opcode \in CompareOpcodes \ {MONGOC_MATCHER_OPCODE_EQ} ->
              Serialized(
                bson_append_document(
                  bson, h[op].path,
                  bson_append_iter(<<>>, CompareStr(opcode), h[op].iter)))
         [] opcode \in LogicalOpcodes ->
              IF left.end # "ok" THEN Stopped(left.end, bson)
              ELSE IF right.end # "ok" THEN Stopped(right.end, bson)
              ELSE Serialized(
                     bson_append_array(bson, LogicalStr(opcode), second))
         [] opcode = MONGOC_MATCHER_OPCODE_NOT ->
              IF child.end # "ok" THEN Stopped(child.end, bson)
              ELSE Serialized(
                     bson_append_document(
                       bson, h[op].path,
                       bson_append_document(<<>>, <<"$not">>, child.bson)))
         [] opcode = MONGOC_MATCHER_OPCODE_EXISTS ->
              Serialized(BSON_APPEND_BOOL(bson, <<"$exists">>, h[op].exists))
         [] opcode = MONGOC_MATCHER_OPCODE_TYPE ->
              Serialized(BSON_APPEND_INT32(bson, <<"$type">>, h[op].type))
         [] OTHER -> Stopped("assert", bson)

_mongoc_matcher_op_to_bson(h, op, bson) ==
  IF op = NULL
  THEN Stopped("assert", bson)
  ELSE IF ~Readable(h, op)
  THEN Stopped("undefined", bson)
  ELSE
    LET opcode == h[op].opcode
        left == _mongoc_matcher_op_to_bson(h, h[op].left, <<>>)
        right == _mongoc_matcher_op_to_bson(h, h[op].right, <<>>)
        child == _mongoc_matcher_op_to_bson(h, h[op].child, <<>>)
        first == bson_append_document(<<>>, <<"0">>, left.bson)
        second == bson_append_document(first, <<"1">>, right.bson)
    IN CASE opcode = MONGOC_MATCHER_OPCODE_EQ ->
              Serialized(bson_append_iter(bson, h[op].path, h[op].iter))
         [] opcode \in CompareOpcodes \ {MONGOC_MATCHER_OPCODE_EQ} ->
              Serialized(
                bson_append_document(
                  bson, h[op].path,
                  bson_append_iter(<<>>, CompareStr(opcode), h[op].iter)))
         [] opcode \in LogicalOpcodes ->
              IF left.end # "ok" THEN Stopped(left.end, bson)
              ELSE IF h[op].right = NULL
              THEN Serialized(
                     bson_append_array(bson, LogicalStr(opcode), first))
              ELSE IF right.end # "ok" THEN Stopped(right.end, bson)
              ELSE Serialized(
                     bson_append_array(bson, LogicalStr(opcode), second))
         [] opcode = MONGOC_MATCHER_OPCODE_NOT ->
              IF child.end # "ok" THEN Stopped(child.end, bson)
              ELSE Serialized(
                     bson_append_document(
                       bson, h[op].path,
                       bson_append_document(<<>>, <<"$not">>, child.bson)))
         [] opcode = MONGOC_MATCHER_OPCODE_EXISTS ->
              Serialized(BSON_APPEND_BOOL(bson, <<"$exists">>, h[op].exists))
         [] opcode = MONGOC_MATCHER_OPCODE_TYPE ->
              Serialized(BSON_APPEND_INT32(bson, <<"$type">>, h[op].type))
         [] OTHER -> Stopped("assert", bson)

----------------------------------------------------------------------------
(* The operations, as the caller of the five constructors, of the          *)
(* evaluator and of the teardown runs them.  A call that does not end "ok" *)
(* is the last thing the process does.                                     *)

NoResult ==
  [op |-> NULL, path |-> NULL_PATH, bson |-> <<>>, res |-> FALSE, warn |-> 0,
   trace |-> <<>>, out |-> <<>>]

\* The caller's memory: a string it passes as path, the document its
\* operands point into, and the documents it evaluates.
CallerMemory ==
  [str |-> <<"a">>, strState |-> "live", operand |-> "live", docs |-> "live"]

\* What the program reads through its pointers: the path of a node whose
\* path pointer refers to the caller's string is what that string holds now.
Memory(h, c) ==
  [a \in Addr |->
     IF h[a].pathState = "caller"
     THEN [h[a] EXCEPT !.path = IF c.strState = "live" THEN c.str ELSE <<"">>]
     ELSE h[a]]

\* bson_free (op->...path) releases what the pointer refers to: the caller's
\* memory after the releases of log.
Freed(h, c, log) ==
  IF \E i \in 1..Len(log) :
       log[i].kind = "path" /\ h[log[i].addr].pathState = "caller"
  THEN [c EXCEPT !.strState = "freed"]
  ELSE c

Init ==
  /\ heap = EmptyHeap
  /\ roots = {}
  /\ stale = {}
  /\ call = "init"
  /\ status = "ok"
  /\ result = NoResult
  /\ freeLog = <<>>
  /\ before = EmptyHeap
  /\ caller = CallerMemory

\* A constructor call: the new node becomes a root of the caller's, and the
\* children handed over stop being roots (the parent owns them now).
Construct(name, path, new, children) ==
  /\ status = "ok"
  /\ HasRoom(heap)
  /\ call' = name
  /\ IF new.ok
     THEN /\ heap' = [heap EXCEPT ![bson_malloc0(heap)] = new.cell]
          /\ roots' = (roots \ children) \cup {bson_malloc0(heap)}
          /\ status' = "ok"
     ELSE /\ UNCHANGED <<heap, roots>>
          /\ status' = "assert"
  /\ result' = [NoResult EXCEPT !.path = path]
  /\ freeLog' = <<>>
  /\ before' = EmptyHeap
  /\ UNCHANGED <<stale, caller>>

ExistsNew(path, exists) ==
  Construct("exists_new", path,
            _mongoc_matcher_op_exists_new(path, exists), {})

TypeNew(path, type) ==
  Construct("type_new", path, _mongoc_matcher_op_type_new(path, type), {})

CompareNew(opcode, path, iter) ==
  Construct("compare_new", path,
            _mongoc_matcher_op_compare_new(opcode, path, iter), {})

NotNew(path, child) ==
  Construct("not_new", path, _mongoc_matcher_op_not_new(path, child),
            {child})

LogicalNew(opcode, left, right) ==
  Construct("logical_new", NULL_PATH,
            _mongoc_matcher_op_logical_new(opcode, left, right),
            {left, right})

\* _mongoc_matcher_op_match (op, bson).  After undefined behaviour the value
\* handed back is any boolean.
Match(op, bson) ==
  /\ status = "ok"
  /\ LET run == _mongoc_matcher_op_match(Memory(heap, caller), op, bson)
     IN /\ \E res \in IF run.end = "undefined" THEN BOOLEAN ELSE {run.res} :
             result' = [NoResult EXCEPT !.op = op, !.bson = bson,
                                        !.res = res, !.warn = run.warn,
                                        !.trace = run.trace]
        /\ status' = run.end
  /\ call' = "match"
  /\ freeLog' = <<>>
  /\ before' = EmptyHeap
  /\ UNCHANGED <<heap, roots, stale, caller>>

\* _mongoc_matcher_op_to_bson (op, bson), on a document the caller has
\* initialized and may have appended to.
ToBson(op, bson) ==
  /\ status = "ok"
  /\ LET run == _mongoc_matcher_op_to_bson(Memory(heap, caller), op, bson)
     IN /\ result' = [NoResult EXCEPT !.op = op, !.bson = bson,
                                      !.out = run.bson]
        /\ status' = run.end
  /\ call' = "to_bson"
  /\ freeLog' = <<>>
  /\ before' = EmptyHeap
  /\ UNCHANGED <<heap, roots, stale, caller>>

\* _mongoc_matcher_op_destroy (op); the caller's pointer dangles from then on.
\* After undefined behaviour the call may stop, or go on to bson_free (op).
Destroy(op) ==
  /\ status = "ok"
  /\ LET run == _mongoc_matcher_op_destroy(heap, op)
     IN /\ \E log \in IF run.end = "undefined"
                      THEN {run.log, run.log \o <<FreeNode(op)>>}
                      ELSE {run.log} :
             /\ heap' = bson_free(heap, log)
             /\ caller' = Freed(heap, caller, log)
             /\ freeLog' = log
        /\ status' = run.end
        /\ stale' = IF run.end = "ok" THEN stale \cup {op} ELSE stale
  /\ before' = heap
  /\ roots' = roots \ {op}
  /\ call' = "destroy"
  /\ result' = [NoResult EXCEPT !.op = op]

----------------------------------------------------------------------------
(* Spec: trees of every shape MaxNodes allows, built bottom-up from a few  *)
(* leaves, evaluated against a document with and one without the field,    *)
(* and torn down.                                                          *)

TreePath == <<"a">>

TreeDocs == { <<>>, <<Elem(<<"a">>, Int32(5))>> }

Next ==
  \/ ExistsNew(TreePath, FALSE)
  \/ TypeNew(TreePath, BSON_TYPE_INT32)
  \/ CompareNew(MONGOC_MATCHER_OPCODE_EQ, TreePath, Int32(5))
  \/ \E child \in roots : NotNew(TreePath, child)
  \/ \E opcode \in LogicalOpcodes, left \in roots :
       \E right \in (roots \ {left}) \cup {NULL} :
         LogicalNew(opcode, left, right)
  \/ \E op \in roots, bson \in TreeDocs : Match(op, bson)
  \/ \E op \in roots : Destroy(op)

Spec == Init /\ [][Next]_vars

----------------------------------------------------------------------------
(* SpecLeaf: one leaf at a time, over every opcode, path, operand and      *)
(* document of the sets below.                                             *)

Values ==
  { Double(2), Double(5), Double(10),
    Int32(3), Int32(5), Int32(7),
    Int64(1), Int64(5),
    Bool(FALSE), Bool(TRUE),
    Utf8(<<53>>), Utf8(<<97>>), Utf8(<<97, 98>>),
    Null, Undefined }

LeafPaths == { NULL_PATH, <<"">>, <<"a">>, <<"b">>, <<"a", "b">> }

LeafTypes ==
  { 0, BSON_TYPE_DOUBLE, BSON_TYPE_UTF8, BSON_TYPE_DOCUMENT,
    BSON_TYPE_BOOL, BSON_TYPE_NULL, BSON_TYPE_INT32 }

LeafDocs ==
  { <<Elem(<<"a">>, v)>> : v \in Values }
  \cup
  { <<>>,
    <<Elem(<<"b">>, Int32(5))>>,
    <<Elem(<<"a">>, Document(<<Elem(<<"b">>, Int32(5))>>))>>,
    <<Elem(<<"a">>, Document(<<Elem(<<"c">>, Int32(5))>>))>>,
    <<Elem(<<"a", "b">>, Int32(5))>>,
    <<Elem(<<"b">>, Utf8(<<97>>)), Elem(<<"a">>, Int32(7))>> }

\* The documents serialization appends to: an empty one, and one that holds
\* a field already.
SerialDocs == { <<>>, <<Elem(<<"x">>, Int32(1))>> }

NextLeaf ==
  \/ \E path \in LeafPaths, exists \in BOOLEAN :
       roots = {} /\ ExistsNew(path, exists)
  \/ \E path \in LeafPaths, type \in LeafTypes :
       roots = {} /\ TypeNew(path, type)
  \/ \E opcode \in CompareOpcodes, path \in LeafPaths, iter \in Values :
       roots = {} /\ CompareNew(opcode, path, iter)
  \/ \E op \in roots, bson \in LeafDocs : Match(op, bson)
  \/ \E op \in roots, bson \in SerialDocs : ToBson(op, bson)
  \/ \E op \in roots : Destroy(op)

SpecLeaf == Init /\ [][NextLeaf]_vars

----------------------------------------------------------------------------
(* SpecMisuse: the trees of Spec, built and torn down by a caller that     *)
(* also breaks the lifecycle: it tears down or evaluates a root it has     *)
(* already torn down, or a null pointer.                                   *)

NextMisuse ==
  \/ ExistsNew(TreePath, FALSE)
  \/ TypeNew(TreePath, BSON_TYPE_INT32)
  \/ CompareNew(MONGOC_MATCHER_OPCODE_EQ, TreePath, Int32(5))
  \/ \E child \in roots : NotNew(TreePath, child)
  \/ \E opcode \in LogicalOpcodes, left \in roots :
       \E right \in (roots \ {left}) \cup {NULL} :
         LogicalNew(opcode, left, right)
  \/ \E op \in roots : Destroy(op)
  \/ \E op \in stale \cup {NULL} : Destroy(op)
  \/ \E op \in stale \cup {NULL}, bson \in TreeDocs : Match(op, bson)

SpecMisuse == Init /\ [][NextMisuse]_vars

----------------------------------------------------------------------------
(* SpecSerial: trees of every shape MaxNodes allows over a Compare leaf, an *)
(* Exists leaf and Not, serialized and torn down.                           *)

NextSerial ==
  \/ CompareNew(MONGOC_MATCHER_OPCODE_GT, <<"a">>, Int32(5))
  \/ ExistsNew(<<"b">>, TRUE)
  \/ \E child \in roots : NotNew(<<"c">>, child)
  \/ \E opcode \in LogicalOpcodes, left \in roots :
       \E right \in (roots \ {left}) \cup {NULL} :
         LogicalNew(opcode, left, right)
  \/ \E op \in roots, bson \in SerialDocs : ToBson(op, bson)
  \/ \E op \in roots : Destroy(op)

SpecSerial == Init /\ [][NextSerial]_vars

----------------------------------------------------------------------------
(* SpecCaller: one tree at a time, a leaf under a chain of Not nodes, built *)
(* from the string the caller holds (or from a null pointer), while the     *)
(* caller goes on to overwrite and to release that string.                  *)

CallerStrings == { <<"a">>, <<"">>, <<"b">> }

CallerDocs ==
  { <<>>,
    <<Elem(<<"a">>, Int32(5))>>,
    <<Elem(<<"b">>, Int32(5))>>,
    <<Elem(<<"">>, Int32(5))>> }

\* The caller overwrites its string.
CallerWrites(bytes) ==
  /\ status = "ok"
  /\ caller.strState = "live"
  /\ bytes # caller.str
  /\ caller' = [caller EXCEPT !.str = bytes]
  /\ call' = "strcpy"
  /\ result' = NoResult
  /\ freeLog' = <<>>
  /\ before' = EmptyHeap
  /\ UNCHANGED <<heap, roots, stale, status>>

\* The caller releases its string.
CallerFrees ==
  /\ status = "ok"
  /\ caller.strState = "live"
  /\ caller' = [caller EXCEPT !.str = <<"">>, !.strState = "freed"]
  /\ call' = "free"
  /\ result' = NoResult
  /\ freeLog' = <<>>
  /\ before' = EmptyHeap
  /\ UNCHANGED <<heap, roots, stale, status>>

\* The pointers the caller can pass as path: null, or its string.
PathArgs ==
  {NULL_PATH} \cup (IF caller.strState = "live" THEN {caller.str} ELSE {})

NextCaller ==
  \/ \E bytes \in CallerStrings : CallerWrites(bytes)
  \/ CallerFrees
  \/ \E path \in PathArgs : roots = {} /\ ExistsNew(path, TRUE)
  \/ \E path \in PathArgs : roots = {} /\ TypeNew(path, BSON_TYPE_INT32)
  \/ \E path \in PathArgs :
       roots = {} /\ CompareNew(MONGOC_MATCHER_OPCODE_EQ, path, Int32(5))
  \/ \E path \in PathArgs, child \in roots : NotNew(path, child)
  \/ \E op \in roots, bson \in CallerDocs : Match(op, bson)
  \/ \E op \in roots : ToBson(op, <<>>)
  \/ \E op \in roots : Destroy(op)

SpecCaller == Init /\ [][NextCaller]_vars

----------------------------------------------------------------------------
(* What the claims speak of.                                               *)

\* The last call was an evaluation, and it returned.
Matched == call = "match" /\ status = "ok"

\* The node the last call was made on, while it is live.
Op == heap[result.op]

\* The document's field for a path used as a key: the first element of the
\* document that has that key.
FieldPresent(bson, key) == \E i \in 1..Len(bson) : bson[i].key = key

Field(bson, key) ==
  LET first == CHOOSE i \in 1..Len(bson) :
                 /\ bson[i].key = key
                 /\ \A j \in 1..Len(bson) : bson[j].key = key => i <= j
  IN bson[first].val

\* The document accessor of the specification: a dotted path resolved
\* through nested documents to a value, or absence.
RECURSIVE Resolve(_, _)
Resolve(bson, path) ==
  IF path = <<>> \/ ~FieldPresent(bson, <<path[1]>>)
  THEN [found |-> FALSE, val |-> NoValue]
  ELSE LET v == Field(bson, <<path[1]>>)
       IN IF Len(path) = 1
          THEN [found |-> TRUE, val |-> v]
          ELSE IF v.type \in {BSON_TYPE_DOCUMENT, BSON_TYPE_ARRAY}
          THEN Resolve(v.doc, SubSeq(path, 2, Len(path)))
          ELSE [found |-> FALSE, val |-> NoValue]

OperandTypes == {BSON_TYPE_DOUBLE, BSON_TYPE_INT32, BSON_TYPE_INT64}

NumericTypes ==
  {BSON_TYPE_DOUBLE, BSON_TYPE_BOOL, BSON_TYPE_INT32, BSON_TYPE_INT64}

\* The number a numeric value stands for, in halves; a Bool is 0 or 1.
Number(v) == IF v.type = BSON_TYPE_DOUBLE THEN v.num ELSE v.num + v.num

\* The last evaluation was of a Compare node of this opcode whose path names
\* a field of the document.
Compared(opcode) ==
  /\ Matched
  /\ Op.opcode = opcode
  /\ FieldPresent(result.bson, Op.path)

NumericPair ==
  /\ Op.iter.type \in OperandTypes
  /\ Field(result.bson, Op.path).type \in NumericTypes

\* C1: a Compare node with a numeric operand, on a numeric field, realizes
\* its operator as named: Gt matches iff field > operand, Gte iff
\* field >= operand, Lt iff field < operand, Lte iff field <= operand.
C1_OrderingAsNamed ==
  LET field == Number(Field(result.bson, Op.path))
      operand == Number(Op.iter)
  IN /\ Compared(MONGOC_MATCHER_OPCODE_GT) /\ NumericPair
          => (result.res <=> field > operand)
     /\ Compared(MONGOC_MATCHER_OPCODE_GTE) /\ NumericPair
          => (result.res <=> field >= operand)
     /\ Compared(MONGOC_MATCHER_OPCODE_LT) /\ NumericPair
          => (result.res <=> field < operand)
     /\ Compared(MONGOC_MATCHER_OPCODE_LTE) /\ NumericPair
          => (result.res <=> field <= operand)

\* The path is absent from the document, whether it is read as a key or as
\* a dotted path.
Absent(bson, path) ==
  ~FieldPresent(bson, path) /\ ~Resolve(bson, path).found

\* C2: when the Compare node's path is absent from the document, Ne and Nin
\* evaluate to true.
C2_AbsentNeNinTrue ==
  /\ Matched
  /\ Op.opcode \in {MONGOC_MATCHER_OPCODE_NE, MONGOC_MATCHER_OPCODE_NIN}
  /\ Absent(result.bson, Op.path)
  => result.res = TRUE

\* The equality the specification's coercion matrix defines.
MatrixEq(operand, field) ==
  IF operand.type \in OperandTypes /\ field.type \in NumericTypes
  THEN Number(operand) = Number(field)
  ELSE IF operand.type = BSON_TYPE_UTF8 /\ field.type = BSON_TYPE_UTF8
  THEN operand.str = field.str
  ELSE /\ operand.type = BSON_TYPE_NULL
       /\ field.type \in {BSON_TYPE_NULL, BSON_TYPE_UNDEFINED}

\* C5: Eq on a present field is numeric equality for a Double/Int32/Int64
\* operand against a Double/Bool/Int32/Int64 field (Bool read as 0/1), byte
\* equality for Utf8 against Utf8, true for a Null operand against a Null or
\* Undefined field, and false for every other pairing; it never fails.
C5_EqMatrix ==
  /\ call = "match" /\ Op.opcode = MONGOC_MATCHER_OPCODE_EQ => status = "ok"
  /\ Compared(MONGOC_MATCHER_OPCODE_EQ)
       => (result.res <=> MatrixEq(Op.iter, Field(result.bson, Op.path)))

\* C5's case: Eq evaluated on pairings of every row of the matrix.  Here an
\* Int32 operand 5 met the Double field 5.0 and matched.
C5_Witness ==
  /\ Compared(MONGOC_MATCHER_OPCODE_EQ)
  /\ Op.iter = Int32(5)
  /\ Field(result.bson, Op.path) = Double(10)
  /\ result.res

\* C6: a Type node is false when its path is absent, and otherwise true
\* exactly when the type tag of the value the (dotted) path resolves to is
\* the expected type.
C6_TypeOfResolved ==
  Matched /\ Op.opcode = MONGOC_MATCHER_OPCODE_TYPE
  => LET at == Resolve(result.bson, Op.path)
     IN result.res <=> (at.found /\ at.val.type = Op.type)

\* C7: Exists(path, true) matches iff the path is found, and
\* Exists(path, false) iff it is not.
C7_ExistsIffFound ==
  Matched /\ Op.opcode = MONGOC_MATCHER_OPCODE_EXISTS
  => LET found == Resolve(result.bson, Op.path).found
     IN /\ Op.exists => (result.res <=> found)
        /\ ~Op.exists => (result.res <=> ~found)

\* C7's case: Exists(path, false) matched a document that lacks the path.
C7_Witness ==
  /\ Matched
  /\ Op.opcode = MONGOC_MATCHER_OPCODE_EXISTS
  /\ ~Op.exists
  /\ Op.path = <<"a", "b">>
  /\ FieldPresent(result.bson, <<"a">>)
  /\ ~Resolve(result.bson, Op.path).found
  /\ result.res

\* C8: In evaluates to false and Nin to true, whatever the document and the
\* operand.
C8_InNinConstant ==
  /\ Matched /\ Op.opcode = MONGOC_MATCHER_OPCODE_IN => result.res = FALSE
  /\ Matched /\ Op.opcode = MONGOC_MATCHER_OPCODE_NIN => result.res = TRUE

\* Where in the last evaluation _mongoc_matcher_op_match was called on op,
\* and where it returned from it.
Calls(op) ==
  {i \in 1..Len(result.trace) :
     result.trace[i].ev = "call" /\ result.trace[i].op = op}

Rets(op) ==
  {i \in 1..Len(result.trace) :
     result.trace[i].ev = "ret" /\ result.trace[i].op = op}

\* The left result alone decides a Logical node of this opcode.
Decides(opcode, left) ==
  \/ opcode = MONGOC_MATCHER_OPCODE_AND /\ ~left
  \/ opcode = MONGOC_MATCHER_OPCODE_OR /\ left
  \/ opcode = MONGOC_MATCHER_OPCODE_NOR /\ left

\* The last call was an evaluation of a Logical root with no right child.
OneLegged ==
  /\ call = "match"
  /\ result.op # NULL
  /\ Op.opcode \in LogicalOpcodes
  /\ Op.right = NULL

\* C3: a Logical node with an absent right child evaluates without failure:
\* And and Or give the left child's result, Nor its negation.
C3_OneLeggedIsLeft ==
  OneLegged
  => /\ status = "ok"
     /\ \A j \in Rets(Op.left) :
          result.res = IF Op.opcode = MONGOC_MATCHER_OPCODE_NOR
                       THEN ~result.trace[j].res
                       ELSE result.trace[j].res

\* C4: in every evaluation of a Logical node the left child is evaluated
\* first; when the left result decides the outcome (And with left false, Or
\* or Nor with left true) the node returns at once and the right child is
\* never evaluated; otherwise the right child is evaluated exactly once,
\* right after the left has returned.
C4_ShortCircuit ==
  call = "match"
  => \A i \in 1..Len(result.trace) :
       LET e == result.trace[i]
       IN e.ev = "call" /\ e.op # NULL /\ heap[e.op].opcode \in LogicalOpcodes
          => LET n == heap[e.op]
             IN /\ i < Len(result.trace)
                /\ result.trace[i + 1] = CallEv(n.left)
                /\ Cardinality(Calls(n.left)) = 1
                /\ \A j \in Rets(n.left) :
                     IF Decides(n.opcode, result.trace[j].res)
                     THEN /\ n.right # NULL => Calls(n.right) = {}
                          /\ j < Len(result.trace)
                          /\ result.trace[j + 1].ev = "ret"
                          /\ result.trace[j + 1].op = e.op
                     ELSE /\ j < Len(result.trace)
                          /\ result.trace[j + 1] = CallEv(n.right)
                          /\ n.right # NULL => Cardinality(Calls(n.right)) = 1

\* C4's case: an Or whose left child matched returned without evaluating
\* the right child it has.
C4_Witness ==
  /\ Matched
  /\ Op.opcode = MONGOC_MATCHER_OPCODE_OR
  /\ Op.right # NULL
  /\ \E j \in Rets(Op.left) : result.trace[j].res
  /\ Calls(Op.right) = {}
  /\ result.res

\* The nodes of the tree rooted at a, in heap h.
Children(h, a) == {h[a].left, h[a].right, h[a].child} \ {NULL}

RECURSIVE Subtree(_, _)
Subtree(h, a) == {a} \cup UNION {Subtree(h, c) : c \in Children(h, a)}

NodeReleases(a) == {i \in 1..Len(freeLog) : freeLog[i] = FreeNode(a)}
PathReleases(a) == {i \in 1..Len(freeLog) : freeLog[i] = FreePath(a)}

\* The releases the last teardown made of the nodes and paths of a tree.
ReleasesOf(tree) == {i \in 1..Len(freeLog) : freeLog[i].addr \in tree}

\* C9: one teardown of a root releases every node and every path string of
\* its tree exactly once, the left subtree of a Logical node before the
\* right, and a node only after its children; nothing is ever released
\* twice, and what is still allocated belongs to a tree not yet torn down,
\* so that nothing remains once every tree has been torn down.
C9_TeardownExactlyOnce ==
  /\ \A a \in Addr :
       /\ heap[a].frees <= 1
       /\ heap[a].pathFrees <= 1
       /\ heap[a].state = "live" => a \in UNION {Subtree(heap, r) : r \in roots}
       /\ heap[a].pathState = "live" => heap[a].state = "live"
  /\ roots = {} =>
       \A a \in Addr : heap[a].state # "live" /\ heap[a].pathState # "live"
  /\ call = "destroy" =>
       LET tree == Subtree(before, result.op)
       IN /\ status = "ok"
          /\ \A a \in Addr :
               /\ Cardinality(NodeReleases(a)) = IF a \in tree THEN 1 ELSE 0
               /\ Cardinality(PathReleases(a)) =
                    IF a \in tree /\ before[a].pathState = "live"
                    THEN 1 ELSE 0
          /\ \A a \in tree :
               /\ before[a].state = "live"
               /\ heap[a].state = "freed"
               /\ \A c \in Children(before, a) :
                    \A i \in ReleasesOf(Subtree(before, c)) :
                      \A k \in NodeReleases(a) : i < k
               /\ before[a].opcode \in LogicalOpcodes /\ before[a].right # NULL
                    => \A i \in ReleasesOf(Subtree(before, before[a].left)) :
                         \A k \in ReleasesOf(Subtree(before, before[a].right)) :
                           i < k

\* C9's case: after an earlier tree was built and torn down, a Logical node
\* with both children was torn down, and nothing is left allocated.
C9_Witness ==
  /\ call = "destroy"
  /\ before[result.op].opcode \in LogicalOpcodes
  /\ before[result.op].right # NULL
  /\ roots = {}
  /\ \E a \in Addr :
       heap[a].state = "freed" /\ a \notin Subtree(before, result.op)
  /\ Len(freeLog) >= 5

\* The last call was made on a root that had been torn down before.
StaleCall ==
  \/ call = "destroy" /\ result.op # NULL /\ before[result.op].state = "freed"
  \/ call = "match" /\ result.op # NULL /\ heap[result.op].state = "freed"

\* The last call was made on a null pointer.
NullCall == call \in {"destroy", "match"} /\ result.op = NULL

\* C10: a second teardown of a torn-down root, and an evaluation of a
\* torn-down tree, stop with a fatal assertion failure, and released memory
\* is neither read nor released again.
C10_ViolationsCaught ==
  StaleCall
  => /\ status = "assert"
     /\ \A a \in Addr : heap[a].frees <= 1

\* C10, amended: BSON_ASSERT (op) rejects only a null pointer.  A teardown
\* or an evaluation of a torn-down root passes it and reads released memory
\* (undefined behaviour); a teardown or an evaluation of a null pointer
\* stops with a fatal assertion failure before anything is released.
C10_OnlyNullCaught ==
  /\ StaleCall => status = "undefined"
  /\ NullCall => /\ status = "assert"
                 /\ call = "destroy" => heap = before /\ freeLog = <<>>

\* C10's case: a torn-down root was torn down again, and its node was
\* released a second time.
C10_Witness ==
  /\ StaleCall
  /\ call = "destroy"
  /\ heap[result.op].frees = 2

\* The constructors that take a path.
PathConstructors == {"exists_new", "type_new", "compare_new", "not_new"}

\* The nodes that hold a path.
WithPaths ==
  {a \in Addr : heap[a].state = "live" /\ heap[a].pathState # "none"}

OrderingOpcodes ==
  { MONGOC_MATCHER_OPCODE_GT, MONGOC_MATCHER_OPCODE_GTE,
    MONGOC_MATCHER_OPCODE_LT, MONGOC_MATCHER_OPCODE_LTE }

\* The pairings the equality matrix has a row for.
Mapped(operand, field) ==
  \/ operand.type \in OperandTypes /\ field.type \in NumericTypes
  \/ operand.type = BSON_TYPE_UTF8 /\ field.type = BSON_TYPE_UTF8
  \/ /\ operand.type = BSON_TYPE_NULL
     /\ field.type \in {BSON_TYPE_NULL, BSON_TYPE_UNDEFINED}

\* C12: on a present field whose pairing with the operand is outside the
\* numeric matrix, Gt, Gte, Lt and Lte return false and emit one non-fatal
\* diagnostic; Eq on a pairing it has no row for returns false and emits no
\* diagnostic; none of them ends the process.
C12_UnsupportedPairing ==
  /\ call = "match" /\ Op.opcode \in OrderingOpcodes => status = "ok"
  /\ call = "match" /\ Op.opcode = MONGOC_MATCHER_OPCODE_EQ => status = "ok"
  /\ \A opcode \in OrderingOpcodes :
       Compared(opcode) /\ ~NumericPair
         => result.res = FALSE /\ result.warn = 1
  /\ (Compared(MONGOC_MATCHER_OPCODE_EQ)
        /\ ~Mapped(Op.iter, Field(result.bson, Op.path)))
       => result.res = FALSE /\ result.warn = 0

\* C12's case: Gt with a Utf8 operand met an Int32 field: false, with one
\* diagnostic.
C12_Witness ==
  /\ Compared(MONGOC_MATCHER_OPCODE_GT)
  /\ Op.iter.type = BSON_TYPE_UTF8
  /\ Field(result.bson, Op.path).type = BSON_TYPE_INT32
  /\ result.res = FALSE
  /\ result.warn = 1

\* The operator name the specification gives each opcode.
OperatorName(opcode) ==
  CASE opcode = MONGOC_MATCHER_OPCODE_GT -> "$gt"
    [] opcode = MONGOC_MATCHER_OPCODE_GTE -> "$gte"
    [] opcode = MONGOC_MATCHER_OPCODE_LT -> "$lt"
    [] opcode = MONGOC_MATCHER_OPCODE_LTE -> "$lte"
    [] opcode = MONGOC_MATCHER_OPCODE_NE -> "$ne"
    [] opcode = MONGOC_MATCHER_OPCODE_IN -> "$in"
    [] opcode = MONGOC_MATCHER_OPCODE_NIN -> "$nin"
    [] opcode = MONGOC_MATCHER_OPCODE_OR -> "$or"
    [] opcode = MONGOC_MATCHER_OPCODE_AND -> "$and"
    [] opcode = MONGOC_MATCHER_OPCODE_NOR -> "$nor"

\* The last call was a serialization of a node of one of these opcodes.
SerializedOf(opcodes) ==
  call = "to_bson" /\ result.op # NULL /\ Op.opcode \in opcodes

\* What the last serialization appended to the document it was given.
Appended ==
  IF /\ Len(result.out) >= Len(result.bson)
     /\ SubSeq(result.out, 1, Len(result.bson)) = result.bson
  THEN SubSeq(result.out, Len(result.bson) + 1, Len(result.out))
  ELSE <<>>

\* C13: serializing a Compare node appends exactly one field, named by the
\* node's path: the operand itself for Eq, and for the other opcodes a
\* one-field document whose key is the operator name of that opcode and
\* whose value is the operand.
C13_CompareSerialized ==
  SerializedOf(CompareOpcodes)
  => /\ status = "ok"
     /\ Len(Appended) = 1
     /\ Appended[1].key = Op.path
     /\ Appended[1].val =
          IF Op.opcode = MONGOC_MATCHER_OPCODE_EQ
          THEN Op.iter
          ELSE Document(<<[key |-> <<OperatorName(Op.opcode)>>,
                           val |-> Op.iter]>>)

\* C13's case: Compare(Gt, "a", 5) serialized into an empty document gave
\* {"a": {"$gt": 5}}.
C13_Witness ==
  /\ SerializedOf({MONGOC_MATCHER_OPCODE_GT})
  /\ Op.path = <<"a">>
  /\ Op.iter = Int32(5)
  /\ result.bson = <<>>
  /\ result.out =
       <<Elem(<<"a">>, Document(<<Elem(<<"$gt">>, Int32(5))>>))>>

\* The serialization of a subtree into a document of its own.
SerializedChild(op) == _mongoc_matcher_op_to_bson(heap, op, <<>>).bson

\* C14: serializing a Logical node appends one field keyed "$or", "$and" or
\* "$nor" after its opcode, whose value is an array that holds the
\* serialized left child under "0" and, only when there is a right child,
\* the serialized right child under "1"; with no right child the array has
\* one element and the serialization does not fail.
C14_LogicalSerialized ==
  SerializedOf(LogicalOpcodes)
  => /\ status = "ok"
     /\ Len(Appended) = 1
     /\ Appended[1].key = <<OperatorName(Op.opcode)>>
     /\ Appended[1].val.type = BSON_TYPE_ARRAY
     /\ LET array == Appended[1].val.doc
        IN /\ Len(array) = IF Op.right = NULL THEN 1 ELSE 2
           /\ array[1] = [key |-> <<"0">>,
                          val |-> Document(SerializedChild(Op.left))]
           /\ Op.right # NULL
                => array[2] = [key |-> <<"1">>,
                               val |-> Document(SerializedChild(Op.right))]

\* C14's case: a Nor over a Compare leaf alone was serialized into a one
\* element array.
C14_Witness ==
  /\ SerializedOf({MONGOC_MATCHER_OPCODE_NOR})
  /\ status = "ok"
  /\ Op.right = NULL
  /\ result.out =
       result.bson \o
       <<Elem(<<"$nor">>,
              Array(<<Elem(<<"0">>,
                           Document(<<Elem(<<"a">>,
                                           Document(<<Elem(<<"$gt">>,
                                                           Int32(5))>>))>>))>>))>>

\* C15: Compare resolves its path as Exists and Type do, as a dotted path
\* into nested documents: Eq matches exactly when the path resolves to a
\* value and that value equals the operand.
C15_CompareResolvesDotted ==
  Matched /\ Op.opcode = MONGOC_MATCHER_OPCODE_EQ
  => LET at == Resolve(result.bson, Op.path)
     IN result.res <=> (at.found /\ MatrixEq(Op.iter, at.val))

\* The types the equality matrix speaks of.
MatrixTypes ==
  { BSON_TYPE_DOUBLE, BSON_TYPE_BOOL, BSON_TYPE_INT32, BSON_TYPE_INT64,
    BSON_TYPE_UTF8, BSON_TYPE_NULL, BSON_TYPE_UNDEFINED }

\* The last evaluation was an Eq of operand x against a present field y,
\* both of the matrix's types.
EqOf(x, y) ==
  /\ Compared(MONGOC_MATCHER_OPCODE_EQ)
  /\ x = Op.iter
  /\ y = Field(result.bson, Op.path)
  /\ x.type \in MatrixTypes
  /\ y.type \in MatrixTypes

\* Eq with operand x against a field y.
Eq(x, y) == _mongoc_matcher_op_eq_match([iter |-> x], y).res

\* The pairings the matrix has in one order only.
OneWay(x, y) ==
  \/ x.type \in OperandTypes /\ y.type = BSON_TYPE_BOOL
  \/ x.type = BSON_TYPE_NULL /\ y.type = BSON_TYPE_UNDEFINED

\* C16: Eq is symmetric: with operand x against field y it gives what it
\* gives with operand y against field x, for all x and y of the types
\* Double, Bool, Int32, Int64, Utf8, Null and Undefined.
C16_EqSymmetric ==
  \A x, y \in Values : EqOf(x, y) => result.res = Eq(y, x)

\* C16, amended: Eq is symmetric except where the matrix has a pairing in
\* one order only.  A Double, Int32 or Int64 operand against a Bool field is
\* compared as numbers, and a Null operand against an Undefined field is
\* true, while a Bool or an Undefined operand matches nothing.
C16_EqSymmetricButBoolUndefined ==
  \A x, y \in Values :
    EqOf(x, y)
    => /\ ~OneWay(x, y) /\ ~OneWay(y, x) => result.res = Eq(y, x)
       /\ OneWay(x, y) => result.res = MatrixEq(x, y) /\ Eq(y, x) = FALSE
       /\ OneWay(y, x) => result.res = FALSE /\ Eq(y, x) = MatrixEq(y, x)
       /\ x.type \in {BSON_TYPE_BOOL, BSON_TYPE_UNDEFINED}
            => result.res = FALSE

\* C16's case: a Bool operand true did not match the Int64 field 1, which
\* as an operand matches the Bool field true.
C16_Witness ==
  /\ EqOf(Bool(TRUE), Int64(1))
  /\ result.res = FALSE
  /\ Eq(Int64(1), Bool(TRUE)) = TRUE

\* What evaluating and serializing the tree at op yield, memory being as h
\* and c say.
Behaviour(h, c, op) ==
  [match |-> [bson \in CallerDocs |->
                _mongoc_matcher_op_match(Memory(h, c), op, bson)],
   to_bson |-> _mongoc_matcher_op_to_bson(Memory(h, c), op, <<>>)]

\* C17: the constructors copy the caller's path.  When the caller overwrites
\* or releases its string, no tree evaluates or serializes differently from
\* before; and a teardown releases nodes and path copies of the tree it is
\* called on only, and leaves the caller's string, the operand's document
\* and the evaluated documents as they were.
C17_PathCopied ==
  [][ /\ call' \in {"strcpy", "free"}
         => \A op \in roots :
              Behaviour(heap', caller', op) = Behaviour(heap, caller, op)
      /\ call' = "destroy"
         => /\ caller' = caller
            /\ \A i \in 1..Len(freeLog') :
                 /\ freeLog'[i].addr \in Subtree(heap, result'.op)
                 /\ freeLog'[i].kind = "path"
                      => heap[freeLog'[i].addr].pathState = "live"
    ]_vars

\* C17's case: an Exists built from the caller's string while it held "a",
\* under a Not built after the caller had overwritten the string with "b",
\* was evaluated after the caller had released the string.
C17_Witness ==
  /\ Matched
  /\ caller.strState = "freed"
  /\ Op.opcode = MONGOC_MATCHER_OPCODE_NOT
  /\ Op.path = <<"b">>
  /\ heap[Op.child].opcode = MONGOC_MATCHER_OPCODE_EXISTS
  /\ heap[Op.child].path = <<"a">>
  /\ result.bson = <<Elem(<<"a">>, Int32(5))>>
  /\ result.res = FALSE

=============================================================================
